---- MODULE Spec2Model ----
(***************************************************************************)
(* API REST "Gestion de Notes de Cours" (src/serveur.js, src/modeleNote.js) *)
(*                                                                         *)
(* The state is the MongoDB collection of notes, the clock read by         *)
(* Date.now, the ObjectId generator, and the HTTP requests, each one an    *)
(* async Express handler that runs up to its first await (reception), is   *)
(* suspended while the database executes its single operation, and then    *)
(* answers.  The database executes one operation at a time on a document   *)
(* (MongoDB's single-document atomicity); requests interleave freely.      *)
(* The database is taken to be reachable: a driver failure is not drawn.   *)
(*                                                                         *)
(* A JavaScript string is the record [type, len, txt]: its length, which   *)
(* is all Joi's min/max read, and a tag telling strings of one length      *)
(* apart.  An identifier of the URL is a natural number: 1..MaxId are the  *)
(* strings that cast to an ObjectId, 0 is a string that does not.          *)
(***************************************************************************)
EXTENDS Integers, Sequences, FiniteSets, TLC

\* ---------------------------------------------------------------- bounds
MaxId == 2          \* ObjectIds that can be drawn
MaxInit == 1        \* notes already in the collection when the server starts
MaxReq == 3         \* HTTP requests received in one behaviour
MaxTime == 1        \* last value of the clock

\* ------------------------------------------------------ program constants
TitreMin == 2
TitreMax == 100
ContenuMin == 2
ContenuMax == 1000
PageDefaut == 1
LimitDefaut == 10

VARIABLES collection, nextId, now, reqs, ops

vars == <<collection, nextId, now, reqs, ops>>

\* ---------------------------------------------------------------- values
Undefined == [type |-> "undefined", len |-> 0, txt |-> ""]

Str(n, t) == [type |-> "string", len |-> n, txt |-> t]

\* The value of findById and the like when no document matches.
Null == [_id |-> 0, titre |-> Undefined, contenu |-> Undefined, dateAjout |-> 0]

Min(a, b) == IF a < b THEN a ELSE b

\* Math.ceil(a / b) for a >= 0, b > 0
Ceil(a, b) == (a + b - 1) \div b

\* ------------------------------------------------------------- validation
\* A faulty variant of JoiString: the .max(hi) rule left out.
JoiStringNoMax(v, lo, hi) ==
    IF v.type = "undefined" THEN "any.required"
    ELSE IF v.type # "string" THEN "string.base"
    ELSE IF v.len = 0 THEN "string.empty"
    ELSE IF v.len < lo THEN "string.min"
    ELSE ""

\* One key of noteSchemaJoi: Joi.string().min(lo).max(hi).required().
\* The value is the code of the first rule broken, "" when there is none.
JoiString(v, lo, hi) ==
    IF v.type = "undefined" THEN "any.required"
    ELSE IF v.type # "string" THEN "string.base"
    ELSE IF v.len = 0 THEN "string.empty"
    ELSE IF v.len < lo THEN "string.min"
    ELSE IF v.len > hi THEN "string.max"
    ELSE ""

\* A faulty variant of noteSchemaJoi: the contenu key left out.
schemaTitreSeul(body) ==
    LET t == JoiString(body.titre, TitreMin, TitreMax)
    IN  IF t # "" THEN "titre: " \o t ELSE ""

\* noteSchemaJoi.validate(body).error, abortEarly: the keys in schema order.
\* The value is error.details[0].message, "" when the body is valid.
noteSchemaJoi(body) ==
    LET t == JoiString(body.titre, TitreMin, TitreMax)
        c == JoiString(body.contenu, ContenuMin, ContenuMax)
    IN  IF t # "" THEN "titre: " \o t
        ELSE IF c # "" THEN "contenu: " \o c
        ELSE ""

\* ------------------------------------------------------------- the model
\* new Note({titre, contenu}): the schema's three paths and the _id.
Note(id, titre, contenu, date) ==
    [_id |-> id, titre |-> titre, contenu |-> contenu, dateAjout |-> date]

\* A faulty variant of CastObjectId: any string is taken as an ObjectId.
CastAlways(id) == TRUE

\* Mongoose's cast of the :id parameter to an ObjectId; FALSE is a CastError.

CastObjectId(id) == id \in 1..MaxId

Ids(coll) == {coll[k]._id : k \in 1..Len(coll)}

\* Note.find()
Find(coll) == coll

\* Note.countDocuments()
CountDocuments(coll) == Len(coll)

\* Note.findById(id)
FindById(coll, id) ==
    IF id \in Ids(coll)
    THEN coll[CHOOSE k \in 1..Len(coll) : coll[k]._id = id]
    ELSE Null

\* note.save() of a new document: an insertOne.
Save(coll, doc) == Append(coll, doc)

\* A faulty variant of FindByIdAndUpdate: the option upsert: true.
UpdateUpsert(coll, id, titre, contenu) ==
    IF id \in Ids(coll)
    THEN LET k == CHOOSE j \in 1..Len(coll) : coll[j]._id = id
             d == [coll[k] EXCEPT !.titre = titre, !.contenu = contenu]
         IN  [coll |-> [coll EXCEPT ![k] = d], note |-> d]
    ELSE [coll |-> Append(coll, Note(id, titre, contenu, 0)),
          note |-> Note(id, titre, contenu, 0)]

\* A faulty variant of FindByIdAndUpdate: the document is replaced by a
\* new one, dateAjout included.
UpdateTouchDate(coll, id, titre, contenu) ==
    IF id \in Ids(coll)
    THEN LET k == CHOOSE j \in 1..Len(coll) : coll[j]._id = id
             d == Note(id, titre, contenu, coll[k].dateAjout + 1)
         IN  [coll |-> [coll EXCEPT ![k] = d], note |-> d]
    ELSE [coll |-> coll, note |-> Null]

\* A faulty variant of FindByIdAndUpdate: only titre is set.
UpdateTitreOnly(coll, id, titre, contenu) ==
    IF id \in Ids(coll)
    THEN LET k == CHOOSE j \in 1..Len(coll) : coll[j]._id = id
             d == [coll[k] EXCEPT !.titre = titre]
         IN  [coll |-> [coll EXCEPT ![k] = d], note |-> d]
    ELSE [coll |-> coll, note |-> Null]

\* Note.findByIdAndUpdate(id, {titre, contenu}, {new: true, runValidators: true}):
\* a findOneAndUpdate with $set, no upsert.  [coll, note]: the collection
\* after it and the document returned (the updated one, or Null).
FindByIdAndUpdate(coll, id, titre, contenu) ==
    IF id \in Ids(coll)
    THEN LET k == CHOOSE j \in 1..Len(coll) : coll[j]._id = id
             d == [coll[k] EXCEPT !.titre = titre, !.contenu = contenu]
         IN  [coll |-> [coll EXCEPT ![k] = d], note |-> d]
    ELSE [coll |-> coll, note |-> Null]

\* A faulty variant of FindByIdAndDelete: the document is read, not removed.
DeleteKeeps(coll, id) == [coll |-> coll, note |-> FindById(coll, id)]

\* Note.findByIdAndDelete(id): a findOneAndDelete.  [coll, note].
FindByIdAndDelete(coll, id) ==
    IF id \in Ids(coll)
    THEN [coll |-> SelectSeq(coll, LAMBDA d : d._id # id),
          note |-> FindById(coll, id)]
    ELSE [coll |-> coll, note |-> Null]

\* .sort({[sortBy]: sortOrder}) of the paginated handler.  No path of the
\* schema is named 'date' or 'matiere': every key compares equal and the
\* order is the natural one; dateAjout is the one path the model orders by.
RECURSIVE InsertSorted(_, _, _)
InsertSorted(s, d, dir) ==
    IF s = << >> THEN <<d>>
    ELSE IF dir * d.dateAjout < dir * Head(s).dateAjout
         THEN <<d>> \o s
         ELSE <<Head(s)>> \o InsertSorted(Tail(s), d, dir)

RECURSIVE TriParDate(_, _)
TriParDate(s, dir) ==
    IF s = << >> THEN << >>
    ELSE InsertSorted(TriParDate(SubSeq(s, 1, Len(s) - 1), dir), s[Len(s)], dir)

Sort(coll, sortBy, dir) ==
    IF sortBy = "dateAjout" THEN TriParDate(coll, dir) ELSE coll

\* .skip(skip).limit(limit)
SkipLimit(s, skip, limit) ==
    SubSeq(s, skip + 1, Min(Len(s), skip + limit))

\* ------------------------------------------------------------- the router
\* A faulty variant of Stack: the paginated GET /notes bound before the
\* list-all one.
StackPagineeFirst ==
    << [kind |-> "route", method |-> "POST", path |-> "/upload", name |-> "upload"],
       [kind |-> "route", method |-> "POST", path |-> "/notes", name |-> "creer"],
       [kind |-> "route", method |-> "GET", path |-> "/notes", name |-> "paginee"],
       [kind |-> "route", method |-> "GET", path |-> "/notes", name |-> "lireToutes"],
       [kind |-> "route", method |-> "GET", path |-> "/notes/:id", name |-> "lireUne"],
       [kind |-> "route", method |-> "PUT", path |-> "/notes/:id", name |-> "modifier"],
       [kind |-> "route", method |-> "DELETE", path |-> "/notes/:id", name |-> "supprimer"],
       [kind |-> "error", method |-> "*", path |-> "*", name |-> "erreurs"],
       [kind |-> "use", method |-> "*", path |-> "*", name |-> "inconnue"] >>

\* The layers of the Express application in the order serveur.js binds
\* them (the middlewares bound before them all call next()).
Stack ==
    << [kind |-> "route", method |-> "POST", path |-> "/upload", name |-> "upload"],
       [kind |-> "route", method |-> "POST", path |-> "/notes", name |-> "creer"],
       [kind |-> "route", method |-> "GET", path |-> "/notes", name |-> "lireToutes"],
       [kind |-> "route", method |-> "GET", path |-> "/notes/:id", name |-> "lireUne"],
       [kind |-> "route", method |-> "PUT", path |-> "/notes/:id", name |-> "modifier"],
       [kind |-> "route", method |-> "DELETE", path |-> "/notes/:id", name |-> "supprimer"],
       [kind |-> "error", method |-> "*", path |-> "*", name |-> "erreurs"],
       [kind |-> "use", method |-> "*", path |-> "*", name |-> "inconnue"],
       [kind |-> "route", method |-> "GET", path |-> "/notes", name |-> "paginee"] >>

\* Whether a layer takes the request: an error handler takes only a
\* forwarded error, the other layers only a request without one.
Matches(layer, method, path, err) ==
    IF err THEN layer.kind = "error"
    ELSE \/ layer.kind = "use"
         \/ layer.kind = "route" /\ layer.method = method /\ layer.path = path

\* The first layer after position from that takes the request; "final" is
\* Express's own last handler.
Dispatch(method, path, err, from) ==
    LET S == {k \in (from + 1)..Len(Stack) : Matches(Stack[k], method, path, err)}
    IN  IF S = {} THEN "final"
        ELSE Stack[CHOOSE k \in S : \A j \in S : k <= j].name

\* The handler a request runs.
Route(method, path) == Dispatch(method, path, FALSE, 0)

\* next(err) called by the handler called name.
NextErr(name, method, path) ==
    Dispatch(method, path, TRUE,
             CHOOSE k \in 1..Len(Stack) : Stack[k].name = name)

\* --------------------------------------------------------------- responses
Res0 ==
    [status |-> 0, type |-> "", cles |-> {}, erreur |-> "", message |-> "",
     details |-> "", note |-> Null, notes |-> << >>,
     page |-> 0, totalPages |-> 0, totalNotes |-> 0]

\* res.status(s).json({ erreur: msg })
ResErreur(s, msg) ==
    [Res0 EXCEPT !.status = s, !.type = "objet", !.cles = {"erreur"},
                 !.erreur = msg]

\* The error middleware: 500 with the raw message of the error.
ResErreurServeur(msg) ==
    [Res0 EXCEPT !.status = 500, !.type = "objet",
                 !.cles = {"erreur", "details"},
                 !.erreur = "Erreur serveur", !.details = msg]

\* What next(err) answers from the handler called name.
ResNextErr(name, method, path, msg) ==
    IF NextErr(name, method, path) = "erreurs"
    THEN ResErreurServeur(msg)
    ELSE [Res0 EXCEPT !.status = 500, !.type = "html"]

NonTrouvee == ResErreur(404, "Note non trouvée.")

CastError == "Cast to ObjectId failed"

\* ---------------------------------------------------------------- requests
Req0 ==
    [method |-> "", path |-> "", id |-> 0,
     body |-> [titre |-> Undefined, contenu |-> Undefined],
     query |-> [page |-> 0, limit |-> 0, sortBy |-> "", order |-> ""],
     handler |-> "", pc |-> "", doc |-> Null, total |-> 0,
     res |-> Res0, recvOp |-> 0, op |-> 0]

\* The payloads drawn: two valid ones, at the two ends of the ranges, and
\* one for each way a key can break its rules.
Corps ==
    { [titre |-> Str(2, "a"), contenu |-> Str(2, "x")],
      [titre |-> Str(100, "b"), contenu |-> Str(1000, "y")],
      [titre |-> Undefined, contenu |-> Str(2, "x")],
      [titre |-> Str(1, "c"), contenu |-> Str(2, "x")],
      [titre |-> Str(101, "d"), contenu |-> Str(1000, "y")],
      [titre |-> Str(2, "a"), contenu |-> Undefined],
      [titre |-> Str(2, "a"), contenu |-> Str(1, "z")],
      [titre |-> Str(100, "b"), contenu |-> Str(1001, "w")] }

\* The query strings drawn: none, and the one of the comments of serveur.js.
\* 0 and "" stand for an absent parameter.
Queries ==
    { [page |-> 0, limit |-> 0, sortBy |-> "", order |-> ""],
      [page |-> 1, limit |-> 5, sortBy |-> "date", order |-> "desc"] }

UrlIds == 0..MaxId

NoteInitiale(i) == Note(i, Str(5, "init"), Str(9, "init"), 0)

Init ==
    /\ \E k \in 0..MaxInit : /\ collection = [i \in 1..k |-> NoteInitiale(i)]
                            /\ nextId = k + 1
    /\ now = 0
    /\ reqs = << >>
    /\ ops = 0

\* A request that is answered on reception.
Answered(method, path, id, body, handler, res) ==
    [Req0 EXCEPT !.method = method, !.path = path, !.id = id, !.body = body,
                 !.handler = handler, !.pc = "done", !.res = res,
                 !.recvOp = ops, !.op = ops]

\* A request suspended on its database operation.
Suspended(method, path, id, body, handler, pc) ==
    [Req0 EXCEPT !.method = method, !.path = path, !.id = id, !.body = body,
                 !.handler = handler, !.pc = pc, !.recvOp = ops]

\* POST /notes, to the await of note.save()
PostNotes(body) ==
    /\ Len(reqs) < MaxReq
    /\ Route("POST", "/notes") = "creer"
    /\ LET error == noteSchemaJoi(body) IN
       IF error # ""
       THEN /\ reqs' = Append(reqs, Answered("POST", "/notes", 0, body, "creer",
                                              ResErreur(400, error)))
            /\ UNCHANGED <<nextId, now>>
       ELSE /\ nextId <= MaxId
            /\ \E t \in now..Min(now + 1, MaxTime) :
                  /\ now' = t
                  /\ reqs' = Append(reqs,
                        [Suspended("POST", "/notes", 0, body, "creer", "save")
                            EXCEPT !.doc = Note(nextId, body.titre, body.contenu, t)])
            /\ nextId' = nextId + 1
    /\ UNCHANGED <<collection, ops>>

\* POST /notes, from note.save() to the response
SaveDone(r) ==
    /\ r \in 1..Len(reqs)
    /\ reqs[r].pc = "save"
    /\ collection' = Save(collection, reqs[r].doc)
    /\ ops' = ops + 1
    /\ reqs' = [reqs EXCEPT ![r].pc = "done", ![r].op = ops + 1,
                   ![r].res = [Res0 EXCEPT !.status = 201, !.type = "objet",
                       !.cles = {"_id", "titre", "contenu", "dateAjout", "__v"},
                       !.note = reqs[r].doc]]
    /\ UNCHANGED <<nextId, now>>

\* GET /notes, to the first await of the handler the router picks
GetNotes(query) ==
    /\ Len(reqs) < MaxReq
    /\ LET h == Route("GET", "/notes") IN
       /\ h \in {"lireToutes", "paginee"}
       /\ reqs' = Append(reqs,
             [Suspended("GET", "/notes", 0, Req0.body, h,
                        IF h = "lireToutes" THEN "find" ELSE "count")
                 EXCEPT !.query = query])
    /\ UNCHANGED <<collection, nextId, now, ops>>

\* GET /notes, one database operation of the handler and what follows it:
\* Note.find() of the list-all handler; countDocuments(), then the sorted,
\* skipped and limited find() of the paginated one.
NotesDb(r) ==
    /\ r \in 1..Len(reqs)
    /\ reqs[r].pc \in {"find", "count", "page"}
    /\ ops' = ops + 1
    /\ LET q == reqs[r].query
           page == IF q.page # 0 THEN q.page ELSE PageDefaut
           limit == IF q.limit # 0 THEN q.limit ELSE LimitDefaut
           sortBy == IF q.sortBy # "" THEN q.sortBy ELSE "date"
           sortOrder == IF q.order = "asc" THEN 1 ELSE -1
           skip == (page - 1) * limit
       IN  reqs' =
             IF reqs[r].pc = "find"
             THEN [reqs EXCEPT ![r].pc = "done", ![r].op = ops + 1,
                      ![r].res = [Res0 EXCEPT !.status = 200, !.type = "tableau",
                                     !.notes = Find(collection)]]
             ELSE IF reqs[r].pc = "count"
             THEN [reqs EXCEPT ![r].pc = "page",
                               ![r].total = CountDocuments(collection)]
             ELSE [reqs EXCEPT ![r].pc = "done", ![r].op = ops + 1,
                      ![r].res = [Res0 EXCEPT !.status = 200, !.type = "objet",
                          !.cles = {"page", "totalPages", "totalNotes", "notes"},
                          !.page = page,
                          !.totalPages = Ceil(reqs[r].total, limit),
                          !.totalNotes = reqs[r].total,
                          !.notes = SkipLimit(Sort(Find(collection), sortBy, sortOrder),
                                              skip, limit)]]
    /\ UNCHANGED <<collection, nextId, now>>

\* GET /notes/:id, to the await of Note.findById
GetNoteById(id) ==
    /\ Len(reqs) < MaxReq
    /\ Route("GET", "/notes/:id") = "lireUne"
    /\ reqs' = Append(reqs,
          IF CastObjectId(id)
          THEN Suspended("GET", "/notes/:id", id, Req0.body, "lireUne", "findById")
          ELSE Answered("GET", "/notes/:id", id, Req0.body, "lireUne",
                        ResNextErr("lireUne", "GET", "/notes/:id", CastError)))
    /\ UNCHANGED <<collection, nextId, now, ops>>

\* GET /notes/:id, from Note.findById to the response
FindByIdDone(r) ==
    /\ r \in 1..Len(reqs)
    /\ reqs[r].pc = "findById"
    /\ ops' = ops + 1
    /\ LET note == FindById(collection, reqs[r].id) IN
       reqs' = [reqs EXCEPT ![r].pc = "done", ![r].op = ops + 1,
                   ![r].res = IF note = Null THEN NonTrouvee
                              ELSE [Res0 EXCEPT !.status = 200, !.type = "objet",
                                      !.cles = {"_id", "titre", "contenu",
                                                "dateAjout", "__v"},
                                      !.note = note]]
    /\ UNCHANGED <<collection, nextId, now>>

\* PUT /notes/:id, to the await of Note.findByIdAndUpdate
PutNoteById(id, body) ==
    /\ Len(reqs) < MaxReq
    /\ Route("PUT", "/notes/:id") = "modifier"
    /\ LET error == noteSchemaJoi(body) IN
       reqs' = Append(reqs,
          IF error # ""
          THEN Answered("PUT", "/notes/:id", id, body, "modifier",
                        ResErreur(400, error))
          ELSE IF CastObjectId(id)
          THEN Suspended("PUT", "/notes/:id", id, body, "modifier", "update")
          ELSE Answered("PUT", "/notes/:id", id, body, "modifier",
                        ResNextErr("modifier", "PUT", "/notes/:id", CastError)))
    /\ UNCHANGED <<collection, nextId, now, ops>>

\* PUT /notes/:id, from Note.findByIdAndUpdate to the response
UpdateDone(r) ==
    /\ r \in 1..Len(reqs)
    /\ reqs[r].pc = "update"
    /\ ops' = ops + 1
    /\ LET u == FindByIdAndUpdate(collection, reqs[r].id,
                                  reqs[r].body.titre, reqs[r].body.contenu) IN
       /\ collection' = u.coll
       /\ reqs' = [reqs EXCEPT ![r].pc = "done", ![r].op = ops + 1,
                     ![r].res = IF u.note = Null THEN NonTrouvee
                                ELSE [Res0 EXCEPT !.status = 200, !.type = "objet",
                                        !.cles = {"message", "note"},
                                        !.message = "Note modifiée avec succès",
                                        !.note = u.note]]
    /\ UNCHANGED <<nextId, now>>

\* DELETE /notes/:id, to the await of Note.findByIdAndDelete
DeleteNoteById(id) ==
    /\ Len(reqs) < MaxReq
    /\ Route("DELETE", "/notes/:id") = "supprimer"
    /\ reqs' = Append(reqs,
          IF CastObjectId(id)
          THEN Suspended("DELETE", "/notes/:id", id, Req0.body, "supprimer", "delete")
          ELSE Answered("DELETE", "/notes/:id", id, Req0.body, "supprimer",
                        ResNextErr("supprimer", "DELETE", "/notes/:id", CastError)))
    /\ UNCHANGED <<collection, nextId, now, ops>>

\* DELETE /notes/:id, from Note.findByIdAndDelete to the response
DeleteDone(r) ==
    /\ r \in 1..Len(reqs)
    /\ reqs[r].pc = "delete"
    /\ ops' = ops + 1
    /\ LET u == FindByIdAndDelete(collection, reqs[r].id) IN
       /\ collection' = u.coll
       /\ reqs' = [reqs EXCEPT ![r].pc = "done", ![r].op = ops + 1,
                     ![r].res = IF u.note = Null THEN NonTrouvee
                                ELSE [Res0 EXCEPT !.status = 200, !.type = "objet",
                                        !.cles = {"message"},
                                        !.message = "Note supprimée avec succès"]]
    /\ UNCHANGED <<nextId, now>>

\* A request no route takes: the catch-all bound after the error middleware
RouteInconnue ==
    /\ Len(reqs) < MaxReq
    /\ Route("GET", "/autre") = "inconnue"
    /\ reqs' = Append(reqs, Answered("GET", "/autre", 0, Req0.body, "inconnue",
                                     ResErreur(404, "Route inconnue")))
    /\ UNCHANGED <<collection, nextId, now, ops>>

Next ==
    \/ \E body \in Corps : PostNotes(body)
    \/ \E query \in Queries : GetNotes(query)
    \/ \E id \in UrlIds : GetNoteById(id)
    \/ \E id \in UrlIds, body \in Corps : PutNoteById(id, body)
    \/ \E id \in UrlIds : DeleteNoteById(id)
    \/ RouteInconnue
    \/ \E r \in 1..MaxReq : SaveDone(r)
    \/ \E r \in 1..MaxReq : NotesDb(r)
    \/ \E r \in 1..MaxReq : FindByIdDone(r)
    \/ \E r \in 1..MaxReq : UpdateDone(r)
    \/ \E r \in 1..MaxReq : DeleteDone(r)

Spec == Init /\ [][Next]_vars

\* ================================================================ claims
Slots == 1..Len(reqs)

\* Request r is the one the step is of: received, or resumed, in it.
Stepped(r) == r \in 1..Len(reqs') /\ (r > Len(reqs) \/ reqs'[r] # reqs[r])

\* Request r is resumed by the step: its database operation is executed.
Resumed(r) == r \in Slots /\ reqs'[r] # reqs[r]

IsDone(r) == reqs[r].pc = "done"

\* A key of a payload that is missing or whose length is outside lo..hi.
HorsBornes(v, lo, hi) == v.type = "undefined" \/ v.len < lo \/ v.len > hi

PayloadInvalid(body) ==
    HorsBornes(body.titre, 2, 100) \/ HorsBornes(body.contenu, 2, 1000)

\* An identifier that is a well-formed ObjectId.
BienForme(id) == id # 0

IsWrite(q) ==
    \/ q.method = "POST" /\ q.path = "/notes"
    \/ q.method = "PUT" /\ q.path = "/notes/:id"

IsGetById(q) == q.method = "GET" /\ q.path = "/notes/:id"

IsPut(q) == q.method = "PUT" /\ q.path = "/notes/:id"

IsDelete(q) == q.method = "DELETE" /\ q.path = "/notes/:id"

IsList(q) == q.method = "GET" /\ q.path = "/notes"

\* C1: a create or an update whose payload has a title or a content that
\* is missing or of a length outside [2,100], [2,1000] is answered 400 in
\* the step that receives it, and that step leaves the collection as it was.
C1_InvalidPayloadRejected ==
    [][\A r \in 1..Len(reqs') :
         (Stepped(r) /\ IsWrite(reqs'[r]) /\ PayloadInvalid(reqs'[r].body))
         => /\ reqs'[r].pc = "done"
            /\ reqs'[r].res.status = 400
            /\ reqs'[r].res.cles = {"erreur"}
            /\ collection' = collection]_vars

\* An update with an invalid payload, of a note that is stored, was answered.
C1_Witness ==
    \E r \in Slots : /\ IsPut(reqs[r]) /\ IsDone(r)
                     /\ PayloadInvalid(reqs[r].body)
                     /\ reqs[r].id \in Ids(collection)
                     /\ \E p \in Slots : /\ reqs[p].method = "POST" /\ IsDone(p)
                                         /\ reqs[p].body.titre.len > 100

\* C2 (the claim as stated): the response to GET /notes?page=1&limit=5 has
\* totalNotes = N, totalPages = ceil(N/5) and min(5, N) notes, N being the
\* number of notes stored when the list is read.
C2_PageOfFive ==
    [][\A r \in Slots :
         (Resumed(r) /\ IsList(reqs[r]) /\ reqs'[r].pc = "done"
            /\ reqs[r].query.page = 1 /\ reqs[r].query.limit = 5)
         => /\ {"totalNotes", "totalPages", "notes"} \subseteq reqs'[r].res.cles
            /\ reqs'[r].res.totalNotes = Len(collection)
            /\ reqs'[r].res.totalPages = Ceil(Len(collection), 5)
            /\ Len(reqs'[r].res.notes) = Min(5, Len(collection))]_vars

\* C3: a successful update replaces the title and the content of the note
\* of that id and nothing else: a fetch of the id then gives the payload's
\* title and content with the id and dateAjout of before, and a fetch of
\* any other id gives what it gave before.
C3_UpdateFrame ==
    [][\A r \in Slots :
         (Resumed(r) /\ IsPut(reqs[r]) /\ reqs'[r].res.status = 200)
         => LET i == reqs[r].id
                old == FindById(collection, i)
            IN  /\ old # Null
                /\ FindById(collection', i) =
                      Note(i, reqs[r].body.titre, reqs[r].body.contenu,
                           old.dateAjout)
                /\ reqs'[r].res.note = FindById(collection', i)
                /\ Len(collection') = Len(collection)
                /\ \A j \in (0..MaxId) \ {i} :
                      FindById(collection', j) = FindById(collection, j)]_vars

\* Two notes are stored, one of them updated with success to a new title.
C3_Witness ==
    /\ Len(collection) >= 2
    /\ \E r \in Slots : /\ IsPut(reqs[r]) /\ reqs[r].res.status = 200
                        /\ FindById(collection, reqs[r].id).titre
                              = reqs[r].body.titre
                        /\ reqs[r].body.titre # NoteInitiale(1).titre

\* A DELETE of id i was answered 200.
Deleted(i) ==
    \E d \in Slots : IsDelete(reqs[d]) /\ reqs[d].id = i /\ reqs[d].res.status = 200

\* C4: once a DELETE of an id has been answered 200, every GET of that id
\* that is resumed afterwards is answered 404, and the id is not stored.
C4_DeletedStaysGone ==
    [][\A r \in Slots :
         (Resumed(r) /\ IsGetById(reqs[r]) /\ Deleted(reqs[r].id))
         => /\ reqs'[r].res.status = 404
            /\ reqs[r].id \notin Ids(collection')]_vars

\* A note was deleted, then a note was created, then the deleted id was
\* fetched: three requests one after the other.
C4_Witness ==
    \E d, p, g \in Slots :
        /\ IsDelete(reqs[d]) /\ reqs[d].res.status = 200
        /\ reqs[p].method = "POST" /\ reqs[p].res.status = 201
        /\ reqs[d].op <= reqs[p].recvOp
        /\ IsGetById(reqs[g]) /\ reqs[g].id = reqs[d].id /\ IsDone(g)
        /\ reqs[p].op <= reqs[g].recvOp

\* C5 (the claim as stated): a GET of an id that is not well formed is
\* answered as a GET of a well-formed id that matches no note: 404 with
\* the not-found message.
C5_MalformedIsNotFound ==
    \A r \in Slots :
        (IsGetById(reqs[r]) /\ IsDone(r) /\ ~BienForme(reqs[r].id))
        => reqs[r].res = NonTrouvee

\* C5 (amended): a GET of an id that is not well formed is answered 500 by
\* the error middleware, with the message of the cast error in details,
\* without a database operation; a GET of a well-formed id is answered
\* 200 or 404 with the not-found message.
C5_MalformedIsServerError ==
    \A r \in Slots :
        (IsGetById(reqs[r]) /\ IsDone(r))
        => IF BienForme(reqs[r].id)
           THEN reqs[r].res.status = 200 \/ reqs[r].res = NonTrouvee
           ELSE /\ reqs[r].res.status = 500
                /\ reqs[r].res.erreur = "Erreur serveur"
                /\ reqs[r].res.details = CastError
                /\ reqs[r].op = reqs[r].recvOp

\* A malformed id and a well-formed id that matches no note were fetched.
C5_Witness ==
    \E r, g \in Slots :
        /\ IsGetById(reqs[r]) /\ IsDone(r) /\ ~BienForme(reqs[r].id)
        /\ IsGetById(reqs[g]) /\ BienForme(reqs[g].id) /\ reqs[g].res.status = 404

\* C6: a GET, a PUT with a valid payload or a DELETE of a well-formed id
\* that matches no stored note when the database executes it is answered
\* 404 {erreur: "Note non trouvée."} and leaves the collection as it was.
C6_MissingIdNotFound ==
    [][\A r \in Slots :
         (/\ Resumed(r)
          /\ IsGetById(reqs[r]) \/ IsDelete(reqs[r])
                \/ (IsPut(reqs[r]) /\ ~PayloadInvalid(reqs[r].body))
          /\ BienForme(reqs[r].id)
          /\ reqs[r].id \notin Ids(collection))
         => /\ reqs'[r].pc = "done"
            /\ reqs'[r].res.status = 404
            /\ reqs'[r].res.cles = {"erreur"}
            /\ reqs'[r].res.erreur = "Note non trouvée."
            /\ collection' = collection]_vars

\* The three operations were each answered not-found for an id.
C6_Witness ==
    \E g, u, d \in Slots :
        /\ IsGetById(reqs[g]) /\ reqs[g].res = NonTrouvee
        /\ IsPut(reqs[u]) /\ reqs[u].res = NonTrouvee
        /\ IsDelete(reqs[d]) /\ reqs[d].res = NonTrouvee
        /\ reqs[u].id \notin Ids(collection)

\* C7: every stored note has a title of length in [2,100] and a content of
\* length in [2,1000], and no two stored notes have the same id.
C7_StoredNotesValid ==
    /\ \A k \in 1..Len(collection) :
          /\ collection[k].titre.type = "string"
          /\ collection[k].titre.len >= 2 /\ collection[k].titre.len <= 100
          /\ collection[k].contenu.type = "string"
          /\ collection[k].contenu.len >= 2 /\ collection[k].contenu.len <= 1000
    /\ \A j, k \in 1..Len(collection) :
          collection[j]._id = collection[k]._id => j = k

\* A note at the upper ends of the two ranges was created beside another,
\* and a create with too long a content was asked for.
C7_Witness ==
    /\ Len(collection) >= 2
    /\ \E k \in 1..Len(collection) :
          collection[k].titre.len = 100 /\ collection[k].contenu.len = 1000
    /\ \E r \in Slots : reqs[r].method = "POST" /\ reqs[r].body.contenu.len > 1000

\* C8: every GET /notes runs the list-all handler, never the paginated
\* one, whatever its query: it is answered 200 with the array of every
\* note stored when the database executes Note.find().
C8_ListAllShadowsPaginated ==
    [][\A r \in 1..Len(reqs') :
         IsList(reqs'[r])
         => /\ reqs'[r].handler = "lireToutes"
            /\ reqs'[r].pc \in {"find", "done"}
            /\ (Stepped(r) /\ reqs'[r].pc = "done")
               => /\ reqs'[r].res.status = 200
                  /\ reqs'[r].res.type = "tableau"
                  /\ reqs'[r].res.notes = collection]_vars

\* GET /notes?page=1&limit=5 was answered with a list of two notes.
C8_Witness ==
    \E r \in Slots : /\ IsList(reqs[r]) /\ IsDone(r)
                     /\ reqs[r].query.page = 1 /\ reqs[r].query.limit = 5
                     /\ Len(reqs[r].res.notes) = 2

\* The POST requests that drew id i.
Creator(i) == {p \in Slots : reqs[p].method = "POST" /\ reqs[p].doc._id = i}

\* Note i was inserted before the database operation number k.
InsertedBefore(i, k) ==
    IF Creator(i) = {} THEN i \in 1..(nextId - 1)
    ELSE \E p \in Creator(i) : IsDone(p) /\ reqs[p].op < k

\* Note i was deleted before the database operation number k.
DeletedBefore(i, k) ==
    \E d \in Slots : /\ IsDelete(reqs[d]) /\ reqs[d].id = i
                     /\ reqs[d].res.status = 200 /\ reqs[d].op < k

ExistedAt(i, k) == InsertedBefore(i, k) /\ ~DeletedBefore(i, k)

\* The dateAjout note i was created with.
CreatedAt(i) ==
    IF Creator(i) = {} THEN NoteInitiale(i).dateAjout
    ELSE reqs[CHOOSE p \in Creator(i) : TRUE].doc.dateAjout

\* Requests a and b, both answered by the database, overlapped: each was
\* received before the database executed the other's operation.
Concurrent(a, b) ==
    reqs[a].recvOp < reqs[b].op /\ reqs[b].recvOp < reqs[a].op

\* No update or deletion of note i was executed after operation number k.
NoLaterWrite(i, k) ==
    ~ \E c \in Slots : /\ IsPut(reqs[c]) \/ IsDelete(reqs[c])
                       /\ reqs[c].id = i /\ IsDone(c) /\ reqs[c].op > k

ValidPut(a) ==
    /\ IsPut(reqs[a]) /\ IsDone(a)
    /\ ~PayloadInvalid(reqs[a].body) /\ BienForme(reqs[a].id)

\* C9: two concurrent valid updates of a note that exists when each is
\* executed are both answered 200; until a later write, the note's title
\* and content are both those of the update executed last, and its id and
\* dateAjout are those it was created with.
C9_LastWriteWins ==
    \A a, b \in Slots :
        (/\ ValidPut(a) /\ ValidPut(b) /\ reqs[a].id = reqs[b].id
         /\ reqs[a].op < reqs[b].op /\ Concurrent(a, b)
         /\ ExistedAt(reqs[a].id, reqs[a].op)
         /\ ExistedAt(reqs[a].id, reqs[b].op))
        => /\ reqs[a].res.status = 200
           /\ reqs[b].res.status = 200
           /\ NoLaterWrite(reqs[a].id, reqs[b].op)
              => FindById(collection, reqs[a].id) =
                    Note(reqs[a].id, reqs[b].body.titre, reqs[b].body.contenu,
                         CreatedAt(reqs[a].id))

\* Two concurrent updates of a note, with different payloads, were executed.
C9_Witness ==
    \E a, b \in Slots :
        /\ ValidPut(a) /\ ValidPut(b) /\ reqs[a].id = reqs[b].id
        /\ reqs[a].op < reqs[b].op /\ Concurrent(a, b)
        /\ reqs[a].body # reqs[b].body
        /\ reqs[a].res.status = 200 /\ reqs[b].res.status = 200
        /\ CreatedAt(reqs[a].id) = 1

\* C10: a valid update and a deletion of one note, concurrent, the note
\* existing when the deletion is executed: the deletion is answered 200,
\* the update 200 when it is executed first and 404 when it is executed
\* second, and the note is not stored once both are answered.
C10_UpdateNeverRevives ==
    \A a, b \in Slots :
        (/\ ValidPut(a) /\ IsDelete(reqs[b]) /\ IsDone(b)
         /\ reqs[a].id = reqs[b].id /\ Concurrent(a, b)
         /\ InsertedBefore(reqs[a].id, reqs[a].op)
         /\ ExistedAt(reqs[a].id, reqs[b].op))
        => /\ reqs[b].res.status = 200
           /\ reqs[a].res.status = (IF reqs[a].op < reqs[b].op THEN 200 ELSE 404)
           /\ reqs[a].id \notin Ids(collection)

\* The deletion won the race: the concurrent update found no note.
C10_Witness ==
    \E a, b \in Slots :
        /\ ValidPut(a) /\ IsDelete(reqs[b]) /\ IsDone(b)
        /\ reqs[a].id = reqs[b].id /\ Concurrent(a, b)
        /\ reqs[b].op < reqs[a].op
        /\ reqs[b].res.status = 200 /\ reqs[a].res.status = 404

====
